---- MODULE Spec2Model ----
(***************************************************************************)
(* A model of spoff.py, the spiral-of-fifths pitch/interval module.        *)
(*                                                                         *)
(* The module is Python 2 code (naturals.keys()[..], types.StringTypes):   *)
(* on integers "/" is floor division and "%" takes the sign of the         *)
(* divisor, which is what \div and % are here.  A negative list index      *)
(* counts from the end of the list and an index outside -len..len-1        *)
(* raises IndexError.                                                      *)
(*                                                                         *)
(* Python values are modelled as records: a pitch, interval or other dict  *)
(* is the record of its keys, None is the record None, True and False are  *)
(* the records True and False, and a call that raises yields Raise(e).     *)
(* A Python str is the sequence of its characters.                         *)
(***************************************************************************)
EXTENDS Integers, Sequences, FiniteSets, TLC

VARIABLES
    call,        \* name of the function applied last ("none" before any call)
    a,           \* first argument (note, source_pitch, pitch, t1, location)
    b,           \* second argument (dest_pitch, t2, duration)
    interval,    \* interval argument
    text,        \* str argument, or the str a formatter returned
    pitchArray,  \* the list scale() is building
    beats,       \* addDuration's beats argument
    divisionsPerBeat,  \* addDuration's divisionsPerBeat argument
    tables,      \* the module's tables as they are in memory
    lilyList,    \* doc2lilypond: the strings appended for the voice blocks
    currentChord,   \* doc2lilypond: chord group of the note in hand, or False
    previousChord,  \* doc2lilypond: chord group of the note before, or False
    block,       \* doc2lilypond: which part/voice pass of the loops is running
    noteIndex,   \* doc2lilypond: which note of noteList is next
    ret          \* value returned by the last call, or Raise(e)

vars == <<call, a, b, interval, text, pitchArray, beats, divisionsPerBeat, tables,
         lilyList, currentChord, previousChord, block, noteIndex, ret>>

---------------------------------------------------------------------------
(* Bounds of the model *)

MaxAcc == 7        \* accidental counts -MaxAcc .. MaxAcc in the ordering runs
MaxOct == 1        \* octaves 0 .. MaxOct in the ordering runs
MaxNoteAcc == 2    \* accidental counts of the note that is transposed
MaxIntervalPos == 20  \* interval positions -MaxIntervalPos .. MaxIntervalPos
MaxTextAcc == 3    \* accidental counts of the pitches that are formatted
MaxTextOct == 12   \* octaves -MaxTextOct .. MaxTextOct that are formatted
MaxNumber == 16    \* diatonic numbers 0 .. MaxNumber of the interval names
MaxDps == 4        \* divisions per semitone -1 .. MaxDps that are formatted
MaxTime == 3       \* time numerators -MaxTime .. MaxTime, denominators 1 .. MaxTime
MaxDur == 2        \* beats and divisions -MaxDur .. MaxDur of a location or duration
MaxBeats == 3      \* beats per bar 1 .. MaxBeats
MaxDivisions == 3  \* divisions per beat 1 .. MaxDivisions
MaxRun == 3        \* length 0 .. MaxRun of the accidental run of a pitch text
MaxNotes == 2      \* notes 0 .. MaxNotes of a document that is typeset

---------------------------------------------------------------------------
(* Python values *)

None == [none |-> TRUE]
True == [bool |-> TRUE]
False == [bool |-> FALSE]
Raise(e) == [raise |-> e]

Exceptions == {"IndexError", "TypeError", "ValueError", "AttributeError", "ZeroDivisionError"}

IsRaise(v) == \E e \in Exceptions : v = Raise(e)

PyBool(x) == IF x THEN True ELSE False

\* list[i] of Python for a list held as a TLA+ sequence (element 0 first)
InRange(list, i) == (-Len(list) <= i) /\ (i < Len(list))

ListGet(list, i) == IF i >= 0 THEN list[i + 1] ELSE list[Len(list) + i + 1]

Abs(n) == IF n < 0 THEN -n ELSE n

RECURSIVE Gcd(_, _)
Gcd(m, n) == IF n = 0 THEN Abs(m) ELSE Gcd(n, m % n)

\* fractions.Fraction(n, d) for d > 0: kept in lowest terms
Fraction(n, d) == [numerator |-> n \div Gcd(n, d), denominator |-> d \div Gcd(n, d)]

FractionAdd(f, g) ==
    Fraction(f.numerator * g.denominator + g.numerator * f.denominator,
             f.denominator * g.denominator)

FractionSub(f, g) ==
    Fraction(f.numerator * g.denominator - g.numerator * f.denominator,
             f.denominator * g.denominator)

---------------------------------------------------------------------------
(* Module data *)

naturals == [l \in {"F", "C", "G", "D", "A", "E", "B"} |->
                CASE l = "F" -> 0 [] l = "C" -> 1 [] l = "G" -> 2 [] l = "D" -> 3
                  [] l = "A" -> 4 [] l = "E" -> 5 [] l = "B" -> 6]

\* pitch_order as it would be if it ranked the letters by position (F first)
pitch_order_ByPosition == <<0, 1, 2, 3, 4, 5, 6>>

pitch_order == <<3, 0, 4, 1, 5, 2, 6>>

\* intervalList and intervalListP4 hold None at index 0; the sequences below
\* are their elements 1..7, so a TLA+ index is the Python index.
\* intervalList with the entry of intervalListP4 for the 4th
intervalList_P4 == <<0, 2, 4, 6, 1, 3, 5>>

intervalList == <<0, 2, 4, -1, 1, 3, 5>>

intervalListP4 == <<0, 2, 4, 6, 1, 3, 5>>

\* intervalListP4.index(x): None never equals an int, so the search starts at 1
intervalListP4_index(x) == CHOOSE i \in 1..7 : intervalListP4[i] = x

Interval(i, dps, o) == [interval |-> i, divisions_per_semitone |-> dps, octave |-> o]

Pitch(p, dps, o) == [pitch |-> p, divisions_per_semitone |-> dps, octave |-> o]

majorScale == <<Interval(2, 1, 0), Interval(2, 1, 0), Interval(-5, 1, 0),
                Interval(2, 1, 0), Interval(2, 1, 0), Interval(2, 1, 0),
                Interval(-5, 1, 0)>>

\* minorScale with the slices taken one element early
minorScale_SliceAt4 == SubSeq(majorScale, 5, 7) \o SubSeq(majorScale, 1, 4)

\* majorScale[5:] + majorScale[0:5]
minorScale == SubSeq(majorScale, 6, 7) \o SubSeq(majorScale, 1, 5)

\* the tables as the module leaves them when it is loaded
ModuleTables ==
    [naturals |-> naturals, pitch_order |-> pitch_order,
     intervalList |-> intervalList, intervalListP4 |-> intervalListP4,
     majorScale |-> majorScale, minorScale |-> minorScale]

---------------------------------------------------------------------------
(* Ordering and equality of pitches *)

lessThanPitch(source_pitch, dest_pitch) ==
    IF source_pitch = None \/ dest_pitch = None THEN None
    ELSE IF dest_pitch.octave > source_pitch.octave THEN True
    ELSE IF dest_pitch.octave < source_pitch.octave THEN False
    ELSE IF pitch_order[(dest_pitch.pitch % 7) + 1] > pitch_order[(source_pitch.pitch % 7) + 1] THEN True
    ELSE IF pitch_order[(dest_pitch.pitch % 7) + 1] < pitch_order[(source_pitch.pitch % 7) + 1] THEN False
    ELSE IF ~InRange(pitch_order, dest_pitch.pitch \div 7) THEN Raise("IndexError")
    ELSE IF ~InRange(pitch_order, source_pitch.pitch \div 7) THEN Raise("IndexError")
    ELSE PyBool(ListGet(pitch_order, dest_pitch.pitch \div 7)
                  < ListGet(pitch_order, source_pitch.pitch \div 7))

greaterThanPitch(source_pitch, dest_pitch) ==
    IF source_pitch = None \/ dest_pitch = None THEN None
    ELSE IF source_pitch.octave > dest_pitch.octave THEN True
    ELSE IF source_pitch.octave < dest_pitch.octave THEN False
    ELSE IF pitch_order[(source_pitch.pitch % 7) + 1] > pitch_order[(dest_pitch.pitch % 7) + 1] THEN True
    ELSE IF pitch_order[(source_pitch.pitch % 7) + 1] < pitch_order[(dest_pitch.pitch % 7) + 1] THEN False
    ELSE IF ~InRange(pitch_order, source_pitch.pitch \div 7) THEN Raise("IndexError")
    ELSE IF ~InRange(pitch_order, dest_pitch.pitch \div 7) THEN Raise("IndexError")
    ELSE PyBool(ListGet(pitch_order, source_pitch.pitch \div 7)
                  < ListGet(pitch_order, dest_pitch.pitch \div 7))

\* equatePitch answering False for an absent operand, as equateInterval does
equatePitch_FalseOnNone(source_pitch, dest_pitch) ==
    IF source_pitch = None \/ dest_pitch = None THEN False
    ELSE PyBool(dest_pitch.octave = source_pitch.octave
                /\ dest_pitch.pitch = source_pitch.pitch)

\* equatePitch without the octave test
equatePitch_NoOctave(source_pitch, dest_pitch) ==
    IF source_pitch = None \/ dest_pitch = None THEN None
    ELSE PyBool(dest_pitch.pitch = source_pitch.pitch)

equatePitch(source_pitch, dest_pitch) ==
    IF source_pitch = None \/ dest_pitch = None THEN None
    ELSE PyBool(dest_pitch.octave = source_pitch.octave
                /\ dest_pitch.pitch = source_pitch.pitch)

approxEquatePitch(source_pitch, dest_pitch) ==
    IF source_pitch = None \/ dest_pitch = None THEN None
    ELSE PyBool(dest_pitch.pitch = source_pitch.pitch)

---------------------------------------------------------------------------
(* Interval algebra *)

\* dict(pitch) with ['octave'] = 0
OctaveZero(pitch) == [pitch EXCEPT !.octave = 0]

\* the interval dict built from a Fraction and an octave count
IntervalOf(newNoteFraction, octave) ==
    Interval(newNoteFraction.numerator, newNoteFraction.denominator, octave)

\* lines 295-315: source and destination in the same octave
getIntervalSameOctave(source_pitch, dest_pitch, sourceNoteFraction, destNoteFraction) ==
    LET lt == lessThanPitch(source_pitch, dest_pitch)
        gt == greaterThanPitch(source_pitch, dest_pitch)
        eq == equatePitch(source_pitch, dest_pitch)
    IN  IF IsRaise(lt) THEN lt
        ELSE IF lt = True
        THEN IntervalOf(FractionSub(destNoteFraction, sourceNoteFraction),
                        dest_pitch.octave - source_pitch.octave)
        ELSE IF IsRaise(gt) THEN gt
        ELSE IF gt = True
        THEN IntervalOf(FractionSub(sourceNoteFraction, destNoteFraction),
                        source_pitch.octave - dest_pitch.octave)
        ELSE IF eq = True THEN Interval(0, 1, 0)
        ELSE Raise("ValueError")

\* the octave count taken from source to dest whichever lies lower
getIntervalOctaves_SourceMinusDest(source_pitch, dest_pitch, octave_less_than, octave_more_than) ==
    LET sourceNoteFraction == Fraction(source_pitch.pitch, source_pitch.divisions_per_semitone)
        destNoteFraction == Fraction(dest_pitch.pitch, dest_pitch.divisions_per_semitone)
    IN  IF source_pitch.octave < dest_pitch.octave
        THEN IntervalOf(FractionSub(destNoteFraction, sourceNoteFraction),
                        source_pitch.octave - dest_pitch.octave + octave_less_than)
        ELSE IF source_pitch.octave > dest_pitch.octave
        THEN IntervalOf(FractionSub(sourceNoteFraction, destNoteFraction),
                        source_pitch.octave - dest_pitch.octave + octave_more_than)
        ELSE getIntervalSameOctave(source_pitch, dest_pitch,
                                   sourceNoteFraction, destNoteFraction)

\* lines 284-315, once octave_less_than and octave_more_than are set
getIntervalOctaves(source_pitch, dest_pitch, octave_less_than, octave_more_than) ==
    LET sourceNoteFraction == Fraction(source_pitch.pitch, source_pitch.divisions_per_semitone)
        destNoteFraction == Fraction(dest_pitch.pitch, dest_pitch.divisions_per_semitone)
    IN  IF source_pitch.octave < dest_pitch.octave
        THEN IntervalOf(FractionSub(destNoteFraction, sourceNoteFraction),
                        dest_pitch.octave - source_pitch.octave + octave_less_than)
        ELSE IF source_pitch.octave > dest_pitch.octave
        THEN IntervalOf(FractionSub(sourceNoteFraction, destNoteFraction),
                        source_pitch.octave - dest_pitch.octave + octave_more_than)
        ELSE getIntervalSameOctave(source_pitch, dest_pitch,
                                   sourceNoteFraction, destNoteFraction)

getInterval(source_pitch, dest_pitch) ==
    IF source_pitch = None \/ dest_pitch = None THEN None
    ELSE
    LET source_pitch_octave_zero == OctaveZero(source_pitch)
        dest_pitch_octave_zero == OctaveZero(dest_pitch)
        lt == lessThanPitch(source_pitch_octave_zero, dest_pitch_octave_zero)
        gt == greaterThanPitch(source_pitch_octave_zero, dest_pitch_octave_zero)
        eq == equatePitch(source_pitch_octave_zero, dest_pitch_octave_zero)
    IN  IF IsRaise(lt) THEN lt
        ELSE IF lt = True THEN getIntervalOctaves(source_pitch, dest_pitch, 0, -1)
        ELSE IF IsRaise(gt) THEN gt
        ELSE IF gt = True THEN getIntervalOctaves(source_pitch, dest_pitch, -1, 0)
        ELSE IF eq = True THEN getIntervalOctaves(source_pitch, dest_pitch, 0, 0)
        ELSE None

\* lines 232-236: has the interval taken the note past the next C?
addIntervalWraps(toNextC, interval_) ==
    intervalListP4_index(toNextC.interval % 7) <= intervalListP4_index(interval_.interval % 7)

addInterval(note, interval_) ==
    LET noteFraction == Fraction(note.pitch, note.divisions_per_semitone)
        intervalFraction == Fraction(interval_.interval, interval_.divisions_per_semitone)
        newNoteFraction == FractionAdd(noteFraction, intervalFraction)
        newOctave == note.octave + interval_.octave
        newNote == Pitch(newNoteFraction.numerator, newNoteFraction.denominator, newOctave)
        nextC == [note EXCEPT !.pitch = 1, !.octave = note.octave + 1]
        toNextC == getInterval(note, nextC)
    IN  IF IsRaise(toNextC) THEN toNextC
        ELSE IF toNextC = None THEN Raise("TypeError")
        ELSE IF addIntervalWraps(toNextC, interval_)
        THEN [newNote EXCEPT !.octave = newNote.octave + 1]
        ELSE newNote

\* Objects in memory.  A heap is a record from the names of the objects a
\* call can reach to their values; the item assignment object[key] = value
\* changes the one object the name stands for.
Store(heap, object, key, value) ==
    [heap EXCEPT ![object] = [@ EXCEPT ![key] = value]]

\* the argument objects of getInterval after the call: lines 269-272 bind
\* the two ..._octave_zero names to new dicts, dict(pitch), and store into those
getIntervalObjects(source_pitch, dest_pitch) ==
    IF source_pitch = None \/ dest_pitch = None
    THEN [source_pitch |-> source_pitch, dest_pitch |-> dest_pitch]
    ELSE
    LET heap == [source_pitch |-> source_pitch, dest_pitch |-> dest_pitch,
                 source_pitch_octave_zero |-> source_pitch,
                 dest_pitch_octave_zero |-> dest_pitch]
        heap270 == Store(heap, "source_pitch_octave_zero", "octave", 0)
        heap272 == Store(heap270, "dest_pitch_octave_zero", "octave", 0)
    IN  [source_pitch |-> heap272.source_pitch, dest_pitch |-> heap272.dest_pitch]

\* addInterval with nextC = note, the name bound to the argument itself
addIntervalObjects_NextCIsNote(note, interval_) ==
    LET nextC == "note"
        heap == [note |-> note, interval |-> interval_, nextC |-> note]
        heap230 == Store(heap, nextC, "pitch", 1)
        heap231 == Store(heap230, nextC, "octave", heap230[nextC].octave + 1)
        called == getIntervalObjects(heap231.note, heap231[nextC])
        heap232 == [heap231 EXCEPT !.note = called.source_pitch]
    IN  [note |-> heap232.note, interval |-> heap232.interval]

\* the argument objects of addInterval after the call: line 229 binds nextC
\* to a new dict, note.copy(), lines 230-231 store into it and line 232
\* passes note and nextC to getInterval; newNote is a dict of the call's own
addIntervalObjects(note, interval_) ==
    LET nextC == "nextC"
        heap == [note |-> note, interval |-> interval_, nextC |-> note]
        heap230 == Store(heap, nextC, "pitch", 1)
        heap231 == Store(heap230, nextC, "octave", heap230[nextC].octave + 1)
        called == getIntervalObjects(heap231.note, heap231[nextC])
        heap232 == [heap231 EXCEPT !.note = called.source_pitch]
    IN  [note |-> heap232.note, interval |-> heap232.interval]

---------------------------------------------------------------------------
(* Python str and int conversions *)

DigitChars == <<"0", "1", "2", "3", "4", "5", "6", "7", "8", "9">>

Digits == {DigitChars[i] : i \in 1..10}

DigitValue(c) == (CHOOSE i \in 1..10 : DigitChars[i] = c) - 1

RECURSIVE StrNat(_)
StrNat(n) == IF n < 10 THEN <<DigitChars[n + 1]>>
             ELSE StrNat(n \div 10) \o <<DigitChars[(n % 10) + 1]>>

\* str(n) of an int
PyStr(n) == IF n < 0 THEN <<"-">> \o StrNat(-n) ELSE StrNat(n)

RECURSIVE IntNat(_)
IntNat(s) == IF s = <<>> THEN 0
             ELSE IntNat(SubSeq(s, 1, Len(s) - 1)) * 10 + DigitValue(s[Len(s)])

\* int(s) of a str matched by -?[0-9]+
PyInt(s) == IF s[1] = "-" THEN -IntNat(Tail(s)) ELSE IntNat(s)

\* c * n of Python: the character c repeated n times (empty for n <= 0)
Repeat(c, n) == [i \in 1..n |-> c]

\* length of the longest run of characters of set in s from index i on
RECURSIVE RunLen(_, _, _)
RunLen(s, i, set) == IF i <= Len(s) /\ s[i] \in set THEN 1 + RunLen(s, i + 1, set) ELSE 0

Contains(s, c) == \E i \in 1..Len(s) : s[i] = c

LowerLetters == {"a", "b", "c", "d", "e", "f", "g"}

UpperLetters == {"A", "B", "C", "D", "E", "F", "G"}

\* str.upper() on one of the letters a-g, A-G
Upper(c) == CASE c = "a" -> "A" [] c = "b" -> "B" [] c = "c" -> "C" [] c = "d" -> "D"
              [] c = "e" -> "E" [] c = "f" -> "F" [] c = "g" -> "G" [] OTHER -> c

---------------------------------------------------------------------------
(* Pitch text *)

\* naturals.keys()[naturals.values().index(spoffPitchClass)]
naturalsKey(spoffPitchClass) == CHOOSE l \in DOMAIN naturals : naturals[l] = spoffPitchClass

\* pitch2text refusing every dps other than 1 and 2
pitch2text_OnlyOneAndTwo(pitch) ==
    LET spoffPitch == pitch.pitch
        dps == pitch.divisions_per_semitone
    IN  IF dps = 0 THEN Raise("ZeroDivisionError")
        ELSE IF dps < 0 \/ dps > 2 THEN Raise("ValueError")
        ELSE
        LET spoffPitchClass == ((spoffPitch + ((spoffPitch % dps) * 7)) \div dps) % 7
            accidental == (spoffPitch - (spoffPitchClass * dps)) \div 7
            pitchString == <<naturalsKey(spoffPitchClass)>>
            octave == PyStr(pitch.octave)
            sharp == spoffPitch > (spoffPitchClass * dps)
        IN  IF dps = 2
            THEN pitchString \o Repeat(IF sharp THEN "+" ELSE "d", Abs(accidental) % 2)
                   \o Repeat(IF sharp THEN "#" ELSE "b", Abs(accidental) \div 2) \o octave
            ELSE pitchString \o Repeat(IF accidental > 0 THEN "#" ELSE "b", Abs(accidental))
                   \o octave

pitch2text(pitch) ==
    LET spoffPitch == pitch.pitch
        dps == pitch.divisions_per_semitone
    IN  IF dps = 0 THEN Raise("ZeroDivisionError")
        ELSE IF dps < 0 THEN Raise("ValueError")
        ELSE
        LET spoffPitchClass == ((spoffPitch + ((spoffPitch % dps) * 7)) \div dps) % 7
            accidental == (spoffPitch - (spoffPitchClass * dps)) \div 7
            pitchString == <<naturalsKey(spoffPitchClass)>>
            pitchFraction == Fraction(spoffPitch, dps)
            octave == PyStr(pitch.octave)
        IN  IF dps > 2
            THEN pitchString \o PyStr(Abs(accidental)) \o <<"/">> \o PyStr(dps)
                   \o <<IF pitchFraction.numerator > 0 THEN "#" ELSE "b">> \o octave
            ELSE IF dps = 2
            THEN LET sharp == spoffPitch > (spoffPitchClass * dps)
                     accidentalSemitone == IF sharp THEN "#" ELSE "b"
                     accidentalQuartertone == IF sharp THEN "+" ELSE "d"
                 IN  pitchString \o Repeat(accidentalQuartertone, Abs(accidental) % 2)
                       \o Repeat(accidentalSemitone, Abs(accidental) \div 2) \o octave
            ELSE LET accidentalSign == IF accidental > 0 THEN <<"#">>
                                       ELSE IF accidental < 0 THEN <<"b">> ELSE <<>>
                 IN  pitchString
                       \o (IF accidentalSign = <<>> THEN <<>>
                           ELSE Repeat(accidentalSign[1], Abs(accidental) \div dps))
                       \o octave

\* text2pitchAlter with the sign of the flats lost
text2pitchAlter_FlatsUp(accidental) ==
    IF Contains(accidental, "#") THEN 7 * Len(accidental)
    ELSE IF Contains(accidental, "b") THEN 7 * Len(accidental)
    ELSE 0

\* the alteration text2pitch gives to the accidental run matched by [#b]*
text2pitchAlter(accidental) ==
    IF Contains(accidental, "#") THEN 7 * Len(accidental)
    ELSE IF Contains(accidental, "b") THEN -7 * Len(accidental)
    ELSE 0

\* re.match of ([a-gA-G])([#b]*)(-?[0-9]*) is anchored at the start only
text2pitch(text_) ==
    IF text_ = <<>> \/ text_[1] \notin (LowerLetters \cup UpperLetters)
    THEN Raise("AttributeError")
    ELSE
    LET pitchClass == naturals[Upper(text_[1])]
        n == RunLen(text_, 2, {"#", "b"})
        accidental == SubSeq(text_, 2, 1 + n)
        minus == IF 2 + n <= Len(text_) /\ text_[2 + n] = "-" THEN 1 ELSE 0
        m == RunLen(text_, 2 + n + minus, Digits)
        group3 == SubSeq(text_, 2 + n, 1 + n + minus + m)
    IN  IF minus = 1 /\ m = 0 THEN Raise("ValueError")
        ELSE Pitch(pitchClass + text2pitchAlter(accidental), 1,
                   IF group3 = <<>> THEN 0 ELSE PyInt(group3))

---------------------------------------------------------------------------
(* Interval text *)

\* length of the text ([MmPp]?|[Aa]*|[Dd]*) matches at index i when digits
\* have to follow it
text2intervalAlterLen(text_, i) ==
    IF i <= Len(text_) /\ text_[i] \in {"M", "m", "P", "p"} THEN 1
    ELSE IF RunLen(text_, i, {"A", "a"}) > 0 THEN RunLen(text_, i, {"A", "a"})
    ELSE RunLen(text_, i, {"D", "d"})

\* can ([MmPp]?|[Aa]*|[Dd]*)([0-9]+) match at index i ?
text2intervalMatchesAt(text_, i) ==
    RunLen(text_, i + text2intervalAlterLen(text_, i), Digits) >= 1

\* the modifier with one diminished letter worth no more than a minor
text2intervalModifier_DiminishedAsMinor(interval_class, alter) ==
    IF interval_class \in {2, 3, 6, 7}
    THEN IF Contains(alter, "M") THEN 0
         ELSE IF Contains(alter, "m") THEN -7
         ELSE IF Contains(alter, "a") \/ Contains(alter, "A") THEN 7 * Len(alter)
         ELSE IF Contains(alter, "d") \/ Contains(alter, "D") THEN -7 - 7 * (Len(alter) - 1)
         ELSE 0
    ELSE IF Contains(alter, "a") \/ Contains(alter, "A") THEN 7 * Len(alter)
         ELSE IF Contains(alter, "d") \/ Contains(alter, "D") THEN -7 * Len(alter)
         ELSE 0

\* lines 535-557: the modifier of a quality for an interval class
text2intervalModifier(interval_class, alter) ==
    IF interval_class \in {2, 3, 6, 7}
    THEN IF Contains(alter, "M") THEN 0
         ELSE IF Contains(alter, "m") THEN -7
         ELSE IF Contains(alter, "a") \/ Contains(alter, "A") THEN 7 * Len(alter)
         ELSE IF Contains(alter, "d") \/ Contains(alter, "D") THEN -7 * Len(alter) - 7
         ELSE 0
    ELSE IF Contains(alter, "a") \/ Contains(alter, "A") THEN 7 * Len(alter)
         ELSE IF Contains(alter, "d") \/ Contains(alter, "D") THEN -7 * Len(alter)
         ELSE 0

\* lines 527-561, given the three groups of the match
text2intervalGroups(group1, alter, group3) ==
    LET type == PyInt(group3)
        octave == (IF group1 = <<>> THEN 0 ELSE PyInt(group1)) + (type \div 8)
        interval_class == type % 8
        modifier == text2intervalModifier(interval_class, alter)
    IN  IF interval_class = 0 THEN Raise("TypeError")   \* intervalList[0] is None
        ELSE Interval(intervalList[interval_class] + modifier, 1, octave)

\* re.match of ([0-9]*)\+?([MmPp]?|[Aa]*|[Dd]*)([0-9]+)(st|nd|rd|th)? is anchored
\* at the start only.  The leading digits are group 1 when a quality and a
\* number can follow them; otherwise the match backtracks and the last of the
\* leading digits is the number.
text2interval(text_) ==
    LET d == RunLen(text_, 1, Digits)
        plus == IF d + 1 <= Len(text_) /\ text_[d + 1] = "+" THEN 1 ELSE 0
        p == d + 1 + plus
        q == text2intervalAlterLen(text_, p)
    IN  IF text2intervalMatchesAt(text_, p)
        THEN text2intervalGroups(SubSeq(text_, 1, d), SubSeq(text_, p, p + q - 1),
                                 SubSeq(text_, p + q, p + q + RunLen(text_, p + q, Digits) - 1))
        ELSE IF d >= 1
        THEN text2intervalGroups(SubSeq(text_, 1, d - 1), <<>>, SubSeq(text_, d, d))
        ELSE Raise("AttributeError")

interval2text(interval_) ==
    IF interval_ = None THEN Raise("TypeError")
    ELSE
    LET interval_string == PyStr(interval_.octave) \o <<"+">>
        spoff_interval_class == interval_.interval % 7
        spoff_modifier == interval_.interval \div 7
        interval_class == intervalListP4_index(spoff_interval_class)
    IN  IF interval_class \in {2, 3, 6, 7}
        THEN IF -2 <= spoff_modifier /\ spoff_modifier <= 1
             THEN interval_string \o <<(<<"d", "m", "M", "A">>)[spoff_modifier + 2 + 1]>>
                    \o PyStr(interval_class)
             ELSE IF spoff_modifier < -2
             THEN interval_string \o Repeat("d", -spoff_modifier) \o PyStr(interval_class)
             ELSE interval_string \o Repeat("A", spoff_modifier) \o PyStr(interval_class)
        ELSE IF interval_class = 4
        THEN IF spoff_modifier = -1
             THEN interval_string \o <<"P">> \o PyStr(interval_class)
             ELSE IF spoff_modifier < -1
             THEN interval_string \o Repeat("d", -(spoff_modifier + 1)) \o PyStr(interval_class)
             ELSE interval_string \o Repeat("A", spoff_modifier + 1) \o PyStr(interval_class)
        ELSE IF interval_class \in {0, 1, 5}
        THEN IF spoff_modifier = 0
             THEN interval_string \o <<"P">> \o PyStr(interval_class)
             ELSE IF spoff_modifier < 0
             THEN interval_string \o Repeat("d", -spoff_modifier) \o PyStr(interval_class)
             ELSE interval_string \o Repeat("A", spoff_modifier) \o PyStr(interval_class)
        ELSE Raise("ValueError")

equateIntervalType(interval1, interval2) ==
    IF interval1 = None \/ interval2 = None THEN False
    ELSE PyBool(Fraction(interval1.interval, interval1.divisions_per_semitone)
                  = Fraction(interval2.interval, interval2.divisions_per_semitone))

---------------------------------------------------------------------------
(* Scale generator *)

\* does ([AaBbCcDdEeFfGg][b#]?)([Mm]) match at the start of text_ ?
scaleMatches(text_) ==
    /\ Len(text_) >= 2
    /\ text_[1] \in (LowerLetters \cup UpperLetters)
    /\ \/ text_[2] \in {"M", "m"}
       \/ Len(text_) >= 3 /\ text_[2] \in {"b", "#"} /\ text_[3] \in {"M", "m"}

\* matches.group(1)
scaleGroup1(text_) == IF text_[2] \in {"b", "#"} THEN SubSeq(text_, 1, 2) ELSE SubSeq(text_, 1, 1)

\* matches.group(2)
scaleType(text_) == IF text_[2] \in {"b", "#"} THEN text_[3] ELSE text_[2]

\* the interval list scale() walks
scaleTemplate(text_) == IF scaleType(text_) = "M" THEN majorScale ELSE minorScale

\* the tables after the dict at index i of the list scale() walks has been
\* left as object by a call; minorScale is built of the dicts of majorScale
\* (majorScale[5:] + majorScale[0:5]), so one object stands in both lists
scaleTables(tables_, text_, i, object) ==
    IF scaleType(text_) = "M"
    THEN [tables_ EXCEPT !.majorScale[i] = object,
                         !.minorScale[((i + 1) % 7) + 1] = object]
    ELSE [tables_ EXCEPT !.minorScale[i] = object,
                         !.majorScale[((i + 4) % 7) + 1] = object]

---------------------------------------------------------------------------
(* Durations *)

Duration(bar, beat, division) == [bar |-> bar, beat |-> beat, division |-> division]

\* addDuration with the carry of the divisions left out of the beats
addDuration_NoBeatCarry(location, duration, beats_, divisionsPerBeat_) ==
    IF divisionsPerBeat_ = 0 \/ beats_ = 0 THEN Raise("ZeroDivisionError")
    ELSE
    LET newDivisions == (location.division + duration.division) % divisionsPerBeat_
        overflowBars == (location.beat + duration.beat) \div beats_
        newBeats == (location.beat + duration.beat) % beats_
        newBars == location.bar + duration.bar + overflowBars
    IN  Duration(newBars, newBeats, newDivisions)

\* x / y and x % y as they are where division truncates toward zero
TruncDiv(x, y) == IF x >= 0 THEN x \div y ELSE -((-x) \div y)

TruncMod(x, y) == x - y * TruncDiv(x, y)

\* addDuration with division that truncates toward zero
addDuration_Truncating(location, duration, beats_, divisionsPerBeat_) ==
    IF divisionsPerBeat_ = 0 \/ beats_ = 0 THEN Raise("ZeroDivisionError")
    ELSE
    LET overflowBeats == TruncDiv(location.division + duration.division, divisionsPerBeat_)
        newDivisions == TruncMod(location.division + duration.division, divisionsPerBeat_)
        overflowBars == TruncDiv(location.beat + duration.beat + overflowBeats, beats_)
        newBeats == TruncMod(location.beat + duration.beat + overflowBeats, beats_)
        newBars == location.bar + duration.bar + overflowBars
    IN  Duration(newBars, newBeats, newDivisions)

\* beats and divisionsPerBeat are positive in every call drawn here; 0 raises
addDuration(location, duration, beats_, divisionsPerBeat_) ==
    IF divisionsPerBeat_ = 0 \/ beats_ = 0 THEN Raise("ZeroDivisionError")
    ELSE
    LET sourceBar == location.bar
        sourceBeat == location.beat
        sourceDiv == location.division
        durBars == duration.bar
        durBeats == duration.beat
        durDivs == duration.division
        overflowBeats == (sourceDiv + durDivs) \div divisionsPerBeat_
        newDivisions == (sourceDiv + durDivs) % divisionsPerBeat_
        overflowBars == (sourceBeat + durBeats + overflowBeats) \div beats_
        newBeats == (sourceBeat + durBeats + overflowBeats) % beats_
        newBars == sourceBar + durBars + overflowBars
    IN  Duration(newBars, newBeats, newDivisions)

---------------------------------------------------------------------------
(* Time *)

Time(n, d) == [crotchet_numerator |-> n, crotchet_denominator |-> d]

\* Fraction.__lt__ and __eq__ on fractions in lowest terms
FractionLess(f, g) == f.numerator * g.denominator < g.numerator * f.denominator

FractionEqual(f, g) == f.numerator = g.numerator /\ f.denominator = g.denominator

\* what building the two Fractions of a time comparison raises, if anything:
\* subscripting None is a TypeError, a zero denominator a ZeroDivisionError
timeFractionsRaise(t1, t2) ==
    IF t1 = None THEN Raise("TypeError")
    ELSE IF t1.crotchet_denominator = 0 THEN Raise("ZeroDivisionError")
    ELSE IF t2 = None THEN Raise("TypeError")
    ELSE IF t2.crotchet_denominator = 0 THEN Raise("ZeroDivisionError")
    ELSE None

timeFraction(t) == Fraction(t.crotchet_numerator, t.crotchet_denominator)

greaterThanTime(t1, t2) ==
    IF timeFractionsRaise(t1, t2) # None THEN timeFractionsRaise(t1, t2)
    ELSE PyBool(FractionLess(timeFraction(t2), timeFraction(t1)))

greaterThanOrEqualToTime(t1, t2) ==
    IF timeFractionsRaise(t1, t2) # None THEN timeFractionsRaise(t1, t2)
    ELSE PyBool(~FractionLess(timeFraction(t1), timeFraction(t2)))

lessThanTime(t1, t2) ==
    IF timeFractionsRaise(t1, t2) # None THEN timeFractionsRaise(t1, t2)
    ELSE PyBool(FractionLess(timeFraction(t1), timeFraction(t2)))

lessThanOrEqualToTime(t1, t2) ==
    IF timeFractionsRaise(t1, t2) # None THEN timeFractionsRaise(t1, t2)
    ELSE PyBool(~FractionLess(timeFraction(t2), timeFraction(t1)))

equateTime(t1, t2) ==
    IF timeFractionsRaise(t1, t2) # None THEN timeFractionsRaise(t1, t2)
    ELSE PyBool(FractionEqual(timeFraction(t1), timeFraction(t2)))

---------------------------------------------------------------------------
(* Typesetting: the chord brackets of doc2lilypond *)

\* A document is modelled by the notes of doc['noteData'] in the order of
\* their onsets, each with its work, part and voice and with the id of the
\* chord group the query of line 1005 finds for it (0 when it finds none).
\* Documents carry no key, clef, time, tie or slur groups and no
\* textUnderList, barGraphList or lineGraphList.  currentChord and
\* previousChord hold a chord id or False, which is the int 0 of Python.
\* lilyList holds the strings lines 1002-1222 append; the header and the
\* \book, \score and \new Staff lines around them are left out.
Note(work_id, part_id, voice, chord) ==
    [work_id |-> work_id, part_id |-> part_id, voice |-> voice, chord |-> chord]

partSet(doc, work) ==
    {doc[i].part_id : i \in {j \in 1..Len(doc) : doc[j].work_id = work}}

\* line 971: the voices of every note of the work, whatever its part
voiceSet(doc, work) ==
    {doc[i].voice : i \in {j \in 1..Len(doc) : doc[j].work_id = work}}

\* the passes of the loops of lines 961-973, as <<work, part_id, voice>>
voiceBlocks(doc) ==
    UNION {{<<work, part_id, voice>> : part_id \in partSet(doc, work),
                                       voice \in voiceSet(doc, work)} :
           work \in {doc[i].work_id : i \in 1..Len(doc)}}

\* works, parts and voices are walked in the order of their ids
blockBefore(x, y) ==
    \/ x[1] < y[1]
    \/ x[1] = y[1] /\ x[2] < y[2]
    \/ x[1] = y[1] /\ x[2] = y[2] /\ x[3] < y[3]

RECURSIVE InOrder(_)
InOrder(blocks) ==
    IF blocks = {} THEN <<>>
    ELSE LET first == CHOOSE x \in blocks : \A y \in blocks \ {x} : blockBefore(x, y)
         IN  <<first>> \o InOrder(blocks \ {first})

\* line 995: the notes of the part and voice, sorted by onset
noteList(doc, blk) ==
    SelectSeq(doc, LAMBDA n : n.work_id = blk[1] /\ n.part_id = blk[2] /\ n.voice = blk[3])

\* spoff_pitch2lily('(1,1,4)') and spoff_time2lily('(1,1)'): every note is
\* the middle C lasting a crotchet
noteString == <<"c", "'">>

crotchet == <<"4">>

\* lines 1067-1165: what is written before the note
chordStartString(currentChord_, previousChord_) ==
    IF currentChord_ # 0 /\ previousChord_ = 0 THEN <<" ", "<", " ">>
    ELSE IF currentChord_ # 0 /\ previousChord_ # 0
    THEN IF currentChord_ = previousChord_ THEN <<>>
         ELSE <<" ", ">">> \o crotchet \o <<" ", "<", " ">>
    ELSE IF previousChord_ # 0 /\ currentChord_ = 0 THEN <<" ", ">">> \o crotchet \o <<" ">>
    ELSE <<>>

\* lines 1070-1164: the duration is written after a note outside a chord
durationString(currentChord_) == IF currentChord_ # 0 THEN <<>> ELSE crotchet

\* ''.join(list)
RECURSIVE Join(_)
Join(list) == IF list = <<>> THEN <<>> ELSE Head(list) \o Join(Tail(list))

\* the variables of doc2lilypond while it is not running
NotTypesetting ==
    /\ lilyList = <<>>
    /\ currentChord = 0
    /\ previousChord = 0
    /\ block = 0
    /\ noteIndex = 0

---------------------------------------------------------------------------
(* Inputs *)

\* every spelling with up to MaxAcc sharps or flats, in octaves 0..MaxOct
OrderPitches == {Pitch(p, 1, o) : p \in (-7 * MaxAcc)..(7 * MaxAcc + 6), o \in 0..MaxOct}

NotePitches == {Pitch(p, 1, o) : p \in (-7 * MaxNoteAcc)..(7 * MaxNoteAcc + 6), o \in 0..MaxOct}

Intervals == {Interval(i, 1, o) : i \in (-MaxIntervalPos)..MaxIntervalPos, o \in 0..MaxOct}

TextPitches == {Pitch(p, 1, o) : p \in (-7 * MaxTextAcc)..(7 * MaxTextAcc + 6),
                                 o \in (-MaxTextOct)..MaxTextOct}

\* the key names scale() accepts: a letter, at most one # or b, and M or m
ScaleTexts == {<<l>> \o acc \o <<m>> : l \in (LowerLetters \cup UpperLetters),
                                      acc \in {<<>>, <<"#">>, <<"b">>},
                                      m \in {"M", "m"}}

\* locations in bars 0..1, offsets in bars -1..0, beats and divisions of either sign
Locations == {Duration(r, t, d) : r \in 0..1, t \in (-MaxDur)..MaxDur, d \in (-MaxDur)..MaxDur}

Durations == {Duration(r, t, d) : r \in (-1)..0, t \in (-MaxDur)..MaxDur, d \in (-MaxDur)..MaxDur}

\* the quality letters an interval name can carry
Qualities == {<<>>, <<"M">>, <<"m">>, <<"P">>, <<"p">>, <<"A">>, <<"a">>, <<"A", "A">>,
              <<"A", "A", "A">>, <<"d">>, <<"D">>, <<"d", "d">>, <<"d", "d", "d">>}

\* interval names: an optional octave count, a quality, a diatonic number
\* and an optional ordinal suffix
IntervalTexts == {prefix \o quality \o PyStr(n) \o suffix :
                    prefix \in {<<>>, <<"1", "+">>},
                    quality \in Qualities,
                    n \in 0..MaxNumber,
                    suffix \in {<<>>, <<"t", "h">>}}

\* pitches of every granularity from -1 to MaxDps
GranularPitches == {Pitch(p, dps, o) : p \in (-7 * MaxTextAcc)..(7 * MaxTextAcc + 6),
                                       dps \in (-1)..MaxDps, o \in 0..MaxOct}

\* a pitch operand that may be absent
OptionalPitches == NotePitches \cup {None}

\* a time operand that may be absent
OptionalTimes == {Time(n, d) : n \in (-MaxTime)..MaxTime, d \in 1..MaxTime} \cup {None}

\* runs of # and b of length n, in every order
RECURSIVE AccidentalRuns(_)
AccidentalRuns(n) ==
    IF n = 0 THEN {<<>>}
    ELSE {run \o <<c>> : run \in AccidentalRuns(n - 1), c \in {"#", "b"}}

\* the texts matched by ([a-gA-G])([#b]*)(-?[0-9]*): a letter, a run of
\* accidentals and an optional octave
PitchTexts == {<<l>> \o run \o octave :
                 l \in (LowerLetters \cup UpperLetters),
                 run \in UNION {AccidentalRuns(n) : n \in 0..MaxRun},
                 octave \in {<<>>, <<"0">>, <<"4">>, <<"1", "0">>, <<"-", "1">>}}

\* the seven natural notes in octaves 0..MaxOct
NaturalPitches == {Pitch(p, 1, o) : p \in 0..6, o \in 0..MaxOct}

\* the intervals within an octave
SimpleIntervals == {i \in Intervals : i.octave = 0}

\* the documents of up to MaxNotes notes, in two works, parts and voices,
\* with two chord groups
Docs == UNION {[1..n -> {Note(w, p, v, c) : w \in {1, 2}, p \in {1, 2},
                                            v \in {1, 2}, c \in 0..2}] :
               n \in 0..MaxNotes}

---------------------------------------------------------------------------
(* Calls *)

LessThanPitch ==
    /\ call' = "lessThanPitch"
    /\ ret' = lessThanPitch(a, b)
    /\ UNCHANGED <<a, b, interval, text, pitchArray, beats, divisionsPerBeat, tables>>
    /\ UNCHANGED <<lilyList, currentChord, previousChord, block, noteIndex>>

GreaterThanPitch ==
    /\ call' = "greaterThanPitch"
    /\ ret' = greaterThanPitch(a, b)
    /\ UNCHANGED <<a, b, interval, text, pitchArray, beats, divisionsPerBeat, tables>>
    /\ UNCHANGED <<lilyList, currentChord, previousChord, block, noteIndex>>

EquatePitch ==
    /\ call' = "equatePitch"
    /\ ret' = equatePitch(a, b)
    /\ UNCHANGED <<a, b, interval, text, pitchArray, beats, divisionsPerBeat, tables>>
    /\ UNCHANGED <<lilyList, currentChord, previousChord, block, noteIndex>>

ApproxEquatePitch ==
    /\ call' = "approxEquatePitch"
    /\ ret' = approxEquatePitch(a, b)
    /\ UNCHANGED <<a, b, interval, text, pitchArray, beats, divisionsPerBeat, tables>>
    /\ UNCHANGED <<lilyList, currentChord, previousChord, block, noteIndex>>

GetInterval ==
    /\ call' = "getInterval"
    /\ ret' = getInterval(a, b)
    /\ a' = getIntervalObjects(a, b).source_pitch
    /\ b' = getIntervalObjects(a, b).dest_pitch
    /\ UNCHANGED <<interval, text, pitchArray, beats, divisionsPerBeat, tables>>
    /\ UNCHANGED <<lilyList, currentChord, previousChord, block, noteIndex>>

\* the caller keeps the transposed note as its next dest_pitch
AddInterval ==
    /\ call' = "addInterval"
    /\ ret' = addInterval(a, interval)
    /\ b' = IF IsRaise(addInterval(a, interval)) THEN None ELSE addInterval(a, interval)
    /\ a' = addIntervalObjects(a, interval).note
    /\ interval' = addIntervalObjects(a, interval).interval
    /\ UNCHANGED <<text, pitchArray, beats, divisionsPerBeat, tables>>
    /\ UNCHANGED <<lilyList, currentChord, previousChord, block, noteIndex>>

\* the caller keeps the returned str as the text it parses next
Pitch2Text ==
    /\ call' = "pitch2text"
    /\ ret' = pitch2text(a)
    /\ text' = IF IsRaise(pitch2text(a)) THEN text ELSE pitch2text(a)
    /\ UNCHANGED <<a, b, interval, pitchArray, beats, divisionsPerBeat, tables>>
    /\ UNCHANGED <<lilyList, currentChord, previousChord, block, noteIndex>>

Text2Pitch ==
    /\ call' = "text2pitch"
    /\ ret' = text2pitch(text)
    /\ UNCHANGED <<a, b, interval, text, pitchArray, beats, divisionsPerBeat, tables>>
    /\ UNCHANGED <<lilyList, currentChord, previousChord, block, noteIndex>>

\* scale(), lines 600-610: match the key name and start the list
ScaleBegin ==
    /\ call = "none"
    /\ IF ~scaleMatches(text)
       THEN call' = "scale" /\ ret' = Raise("AttributeError") /\ UNCHANGED pitchArray
       ELSE LET keynote == text2pitch(scaleGroup1(text))
            IN  call' = "scale.for" /\ pitchArray' = <<keynote>> /\ UNCHANGED ret
    /\ UNCHANGED <<a, b, interval, text, beats, divisionsPerBeat, tables>>
    /\ UNCHANGED <<lilyList, currentChord, previousChord, block, noteIndex>>

\* scale(), lines 611-612: one pass of the loop over the template
ScaleAppend ==
    /\ call = "scale.for"
    /\ Len(pitchArray) <= Len(scaleTemplate(text))
    /\ LET i == Len(pitchArray)
           next == addInterval(pitchArray[i], scaleTemplate(text)[i])
           objects == addIntervalObjects(pitchArray[i], scaleTemplate(text)[i])
           pitchArray611 == [pitchArray EXCEPT ![i] = objects.note]
       IN  /\ IF IsRaise(next)
              THEN call' = "scale" /\ ret' = next /\ pitchArray' = pitchArray611
              ELSE pitchArray' = Append(pitchArray611, next) /\ UNCHANGED <<call, ret>>
           /\ tables' = scaleTables(tables, text, i, objects.interval)
    /\ UNCHANGED <<a, b, interval, text, beats, divisionsPerBeat>>
    /\ UNCHANGED <<lilyList, currentChord, previousChord, block, noteIndex>>

\* scale(), line 614
ScaleReturn ==
    /\ call = "scale.for"
    /\ Len(pitchArray) > Len(scaleTemplate(text))
    /\ call' = "scale"
    /\ ret' = pitchArray
    /\ UNCHANGED <<a, b, interval, text, pitchArray, beats, divisionsPerBeat, tables>>
    /\ UNCHANGED <<lilyList, currentChord, previousChord, block, noteIndex>>

AddDuration ==
    /\ call' = "addDuration"
    /\ ret' = addDuration(a, b, beats, divisionsPerBeat)
    /\ UNCHANGED <<a, b, interval, text, pitchArray, beats, divisionsPerBeat, tables>>
    /\ UNCHANGED <<lilyList, currentChord, previousChord, block, noteIndex>>

\* the caller keeps the returned str as the text it parses next
Interval2Text ==
    /\ call' = "interval2text"
    /\ ret' = interval2text(interval)
    /\ text' = IF IsRaise(interval2text(interval)) THEN text ELSE interval2text(interval)
    /\ UNCHANGED <<a, b, interval, pitchArray, beats, divisionsPerBeat, tables>>
    /\ UNCHANGED <<lilyList, currentChord, previousChord, block, noteIndex>>

Text2Interval ==
    /\ call' = "text2interval"
    /\ ret' = text2interval(text)
    /\ UNCHANGED <<a, b, interval, text, pitchArray, beats, divisionsPerBeat, tables>>
    /\ UNCHANGED <<lilyList, currentChord, previousChord, block, noteIndex>>

GreaterThanTime ==
    /\ call' = "greaterThanTime"
    /\ ret' = greaterThanTime(a, b)
    /\ UNCHANGED <<a, b, interval, text, pitchArray, beats, divisionsPerBeat, tables>>
    /\ UNCHANGED <<lilyList, currentChord, previousChord, block, noteIndex>>

GreaterThanOrEqualToTime ==
    /\ call' = "greaterThanOrEqualToTime"
    /\ ret' = greaterThanOrEqualToTime(a, b)
    /\ UNCHANGED <<a, b, interval, text, pitchArray, beats, divisionsPerBeat, tables>>
    /\ UNCHANGED <<lilyList, currentChord, previousChord, block, noteIndex>>

LessThanTime ==
    /\ call' = "lessThanTime"
    /\ ret' = lessThanTime(a, b)
    /\ UNCHANGED <<a, b, interval, text, pitchArray, beats, divisionsPerBeat, tables>>
    /\ UNCHANGED <<lilyList, currentChord, previousChord, block, noteIndex>>

LessThanOrEqualToTime ==
    /\ call' = "lessThanOrEqualToTime"
    /\ ret' = lessThanOrEqualToTime(a, b)
    /\ UNCHANGED <<a, b, interval, text, pitchArray, beats, divisionsPerBeat, tables>>
    /\ UNCHANGED <<lilyList, currentChord, previousChord, block, noteIndex>>

EquateTime ==
    /\ call' = "equateTime"
    /\ ret' = equateTime(a, b)
    /\ UNCHANGED <<a, b, interval, text, pitchArray, beats, divisionsPerBeat, tables>>
    /\ UNCHANGED <<lilyList, currentChord, previousChord, block, noteIndex>>

\* lines 857-954: the locals are set and the header written
Doc2LilypondBegin ==
    /\ call = "none"
    /\ call' = "doc2lilypond.voice"
    /\ previousChord' = 0
    /\ currentChord' = 0
    /\ lilyList' = <<>>
    /\ block' = 1
    /\ UNCHANGED <<a, b, interval, text, pitchArray, beats, divisionsPerBeat, tables>>
    /\ UNCHANGED <<noteIndex, ret>>

\* lines 973-1002: a pass of the voice loop selects its notes and opens the block
VoiceBegin ==
    /\ call = "doc2lilypond.voice"
    /\ block <= Len(InOrder(voiceBlocks(a)))
    /\ call' = "doc2lilypond.note"
    /\ lilyList' = Append(lilyList, <<"\t", "\t", "\t", " ", "{", "\n">>)
    /\ noteIndex' = 1
    /\ UNCHANGED <<a, b, interval, text, pitchArray, beats, divisionsPerBeat, tables>>
    /\ UNCHANGED <<currentChord, previousChord, block, ret>>

\* lines 1003-1208: one pass of the note loop
NoteStep ==
    /\ call = "doc2lilypond.note"
    /\ noteIndex <= Len(noteList(a, InOrder(voiceBlocks(a))[block]))
    /\ LET note == noteList(a, InOrder(voiceBlocks(a))[block])[noteIndex]
       IN  /\ currentChord' = note.chord
           /\ lilyList' = lilyList \o << <<" ">>,
                                         chordStartString(note.chord, previousChord),
                                         noteString,
                                         durationString(note.chord),
                                         <<>>, <<>>, <<>> >>
           /\ previousChord' = note.chord
    /\ noteIndex' = noteIndex + 1
    /\ UNCHANGED <<a, b, interval, text, pitchArray, beats, divisionsPerBeat, tables>>
    /\ UNCHANGED <<call, block, ret>>

\* lines 1209-1240: after the last note an unfinished chord is closed and
\* the block is closed
VoiceEnd ==
    /\ call = "doc2lilypond.note"
    /\ noteIndex > Len(noteList(a, InOrder(voiceBlocks(a))[block]))
    /\ call' = "doc2lilypond.voice"
    /\ lilyList' = (IF currentChord # 0
                    THEN Append(lilyList, <<" ", ">">> \o crotchet \o <<" ">>)
                    ELSE lilyList)
                   \o << <<"\t", "\t", "\t", "}", "\n">> >>
    /\ previousChord' = 0
    /\ block' = block + 1
    /\ UNCHANGED <<a, b, interval, text, pitchArray, beats, divisionsPerBeat, tables>>
    /\ UNCHANGED <<currentChord, noteIndex, ret>>

\* line 1249
Doc2LilypondReturn ==
    /\ call = "doc2lilypond.voice"
    /\ block > Len(InOrder(voiceBlocks(a)))
    /\ call' = "doc2lilypond"
    /\ ret' = Join(lilyList)
    /\ UNCHANGED <<a, b, interval, text, pitchArray, beats, divisionsPerBeat, tables>>
    /\ UNCHANGED <<lilyList, currentChord, previousChord, block, noteIndex>>

---------------------------------------------------------------------------
(* Specifications *)

\* comparisons and measurement of every pair of spellings
InitOrder ==
    /\ call = "none"
    /\ a \in OrderPitches
    /\ b \in OrderPitches
    /\ interval = None
    /\ text = <<>>
    /\ pitchArray = <<>>
    /\ beats = 4
    /\ divisionsPerBeat = 8
    /\ tables = ModuleTables
    /\ NotTypesetting
    /\ ret = None

NextOrder ==
    \/ LessThanPitch
    \/ GreaterThanPitch
    \/ EquatePitch
    \/ ApproxEquatePitch
    \/ GetInterval

SpecOrder == InitOrder /\ [][NextOrder]_vars

\* a note is transposed and the result measured against the note
InitTranspose ==
    /\ call = "none"
    /\ a \in NotePitches
    /\ b = None
    /\ interval \in Intervals
    /\ text = <<>>
    /\ pitchArray = <<>>
    /\ beats = 4
    /\ divisionsPerBeat = 8
    /\ tables = ModuleTables
    /\ NotTypesetting
    /\ ret = None

NextTranspose ==
    \/ AddInterval
    \/ GetInterval

SpecTranspose == InitTranspose /\ [][NextTranspose]_vars

\* a pitch is formatted and the text parsed
InitText ==
    /\ call = "none"
    /\ a \in TextPitches
    /\ b = None
    /\ interval = None
    /\ text = <<>>
    /\ pitchArray = <<>>
    /\ beats = 4
    /\ divisionsPerBeat = 8
    /\ tables = ModuleTables
    /\ NotTypesetting
    /\ ret = None

NextText ==
    \/ Pitch2Text
    \/ Text2Pitch

SpecText == InitText /\ [][NextText]_vars

\* scale() is run on a key name
InitScale ==
    /\ call = "none"
    /\ a = None
    /\ b = None
    /\ interval = None
    /\ text \in ScaleTexts
    /\ pitchArray = <<>>
    /\ beats = 4
    /\ divisionsPerBeat = 8
    /\ tables = ModuleTables
    /\ NotTypesetting
    /\ ret = None

NextScale ==
    \/ ScaleBegin
    \/ ScaleAppend
    \/ ScaleReturn

SpecScale == InitScale /\ [][NextScale]_vars

\* a duration is added to a location under a metre
InitDuration ==
    /\ call = "none"
    /\ a \in Locations
    /\ b \in Durations
    /\ interval = None
    /\ text = <<>>
    /\ pitchArray = <<>>
    /\ beats \in 1..MaxBeats
    /\ divisionsPerBeat \in 1..MaxDivisions
    /\ tables = ModuleTables
    /\ NotTypesetting
    /\ ret = None

NextDuration == AddDuration

SpecDuration == InitDuration /\ [][NextDuration]_vars

\* an interval name is parsed, or an interval is formatted and the text parsed
InitIntervalText ==
    /\ call = "none"
    /\ a = None
    /\ b = None
    /\ \/ interval \in Intervals /\ text = <<>>
       \/ interval = None /\ text \in IntervalTexts
    /\ pitchArray = <<>>
    /\ beats = 4
    /\ divisionsPerBeat = 8
    /\ tables = ModuleTables
    /\ NotTypesetting
    /\ ret = None

NextIntervalText ==
    \/ Interval2Text
    \/ Text2Interval

SpecIntervalText == InitIntervalText /\ [][NextIntervalText]_vars

\* a pitch of any granularity is formatted
InitGranularity ==
    /\ call = "none"
    /\ a \in GranularPitches
    /\ b = None
    /\ interval = None
    /\ text = <<>>
    /\ pitchArray = <<>>
    /\ beats = 4
    /\ divisionsPerBeat = 8
    /\ tables = ModuleTables
    /\ NotTypesetting
    /\ ret = None

NextGranularity == Pitch2Text

SpecGranularity == InitGranularity /\ [][NextGranularity]_vars

\* comparisons and measurement of pitches either of which may be absent
InitAbsent ==
    /\ call = "none"
    /\ a \in OptionalPitches
    /\ b \in OptionalPitches
    /\ interval = None
    /\ text = <<>>
    /\ pitchArray = <<>>
    /\ beats = 4
    /\ divisionsPerBeat = 8
    /\ tables = ModuleTables
    /\ NotTypesetting
    /\ ret = None

SpecAbsent == InitAbsent /\ [][NextOrder]_vars

\* comparisons of times either of which may be absent
InitTime ==
    /\ call = "none"
    /\ a \in OptionalTimes
    /\ b \in OptionalTimes
    /\ interval = None
    /\ text = <<>>
    /\ pitchArray = <<>>
    /\ beats = 4
    /\ divisionsPerBeat = 8
    /\ tables = ModuleTables
    /\ NotTypesetting
    /\ ret = None

NextTime ==
    \/ GreaterThanTime
    \/ GreaterThanOrEqualToTime
    \/ LessThanTime
    \/ LessThanOrEqualToTime
    \/ EquateTime

SpecTime == InitTime /\ [][NextTime]_vars

\* a pitch text as a user writes it is parsed
InitPitchText ==
    /\ call = "none"
    /\ a = None
    /\ b = None
    /\ interval = None
    /\ text \in PitchTexts
    /\ pitchArray = <<>>
    /\ beats = 4
    /\ divisionsPerBeat = 8
    /\ tables = ModuleTables
    /\ NotTypesetting
    /\ ret = None

NextPitchText == Text2Pitch

SpecPitchText == InitPitchText /\ [][NextPitchText]_vars

\* is the object a pitch dict, a duration dict ?
IsPitch(object) == "pitch" \in DOMAIN object

IsDuration(object) == "bar" \in DOMAIN object

\* calls follow one another on the same objects: two pitches and an
\* interval, or a location and a duration, or a key name given to scale()
InitFrame ==
    /\ call = "none"
    /\ \/ a \in NaturalPitches /\ b \in NaturalPitches /\ interval \in SimpleIntervals
          /\ text = <<>>
       \/ a \in Locations /\ b \in Durations /\ interval = None /\ text = <<>>
       \/ a = None /\ b = None /\ interval = None /\ text \in ScaleTexts
    /\ pitchArray = <<>>
    /\ beats = 4
    /\ divisionsPerBeat = 8
    /\ tables = ModuleTables
    /\ NotTypesetting
    /\ ret = None

NextFrame ==
    \/ IsPitch(a) /\ IsPitch(b) /\ LessThanPitch
    \/ IsPitch(a) /\ IsPitch(b) /\ GreaterThanPitch
    \/ IsPitch(a) /\ IsPitch(b) /\ GetInterval
    \/ IsPitch(a) /\ AddInterval
    \/ IsDuration(a) /\ AddDuration
    \/ text # <<>> /\ ScaleBegin
    \/ ScaleAppend
    \/ ScaleReturn

SpecFrame == InitFrame /\ [][NextFrame]_vars

\* a document is typeset
InitLily ==
    /\ call = "none"
    /\ a \in Docs
    /\ b = None
    /\ interval = None
    /\ text = <<>>
    /\ pitchArray = <<>>
    /\ beats = 4
    /\ divisionsPerBeat = 8
    /\ tables = ModuleTables
    /\ NotTypesetting
    /\ ret = None

NextLily ==
    \/ Doc2LilypondBegin
    \/ VoiceBegin
    \/ NoteStep
    \/ VoiceEnd
    \/ Doc2LilypondReturn

SpecLily == InitLily /\ [][NextLily]_vars

---------------------------------------------------------------------------
(* Notions the properties are stated in *)

\* rank of a position's natural letter, C = 0 .. B = 6: a fifth is 4 letters up
LetterRank(position) == (4 * (position - 1)) % 7

\* letters an interval of the given position climbs: its diatonic class - 1
DiatonicSteps(position) == (4 * position) % 7

\* semitones of the natural letters C D E F G A B above C
LetterSemitones == <<0, 2, 4, 5, 7, 9, 11>>

\* the sounding pitch, in semitones, of a spelling
Sounding(pitch) ==
    12 * pitch.octave + LetterSemitones[LetterRank(pitch.pitch) + 1] + (pitch.pitch \div 7)

\* the order of section 4.2: octave, then letter, then the flatter spelling first
SpellingLess(x, y) ==
    \/ x.octave < y.octave
    \/ /\ x.octave = y.octave
       /\ \/ LetterRank(x.pitch) < LetterRank(y.pitch)
          \/ LetterRank(x.pitch) = LetterRank(y.pitch) /\ x.pitch < y.pitch

\* the position of the key-note a key name spells
KeyPosition(text_) ==
    naturals[Upper(text_[1])]
      + (IF text_[2] = "#" THEN 7 ELSE IF text_[2] = "b" THEN -7 ELSE 0)

ExactlyOne(p, q, r) == (p /\ ~q /\ ~r) \/ (~p /\ q /\ ~r) \/ (~p /\ ~q /\ r)

---------------------------------------------------------------------------
(* Properties *)

\* C1: a pitch with divisions_per_semitone = 1, formatted by pitch2text and
\* parsed back by text2pitch, comes back with the same position, dps and octave.
C1_RoundTrip ==
    (call = "text2pitch" /\ text = pitch2text(a)) => ret = a

\* a doubly flat B in a negative two-digit octave has made the round trip
C1_Witness ==
    /\ call = "text2pitch"
    /\ text = <<"B", "b", "b", "-", "1", "0">>
    /\ a = Pitch(-8, 1, -10)
    /\ ret = a

\* C2: when going up from p by i's diatonic class does not pass the next C and
\* i.octave = 0, measuring from p to addInterval(p, i) gives back i.
C2_TransposeMeasure ==
    (/\ call = "getInterval"
     /\ b # None
     /\ interval.octave = 0
     /\ LetterRank(a.pitch) + DiatonicSteps(interval.interval) < 7)
    => ret = interval

\* C3: addInterval adds the positions, and adds the octaves plus one exactly
\* when the note's letter rank plus the interval's diatonic steps reaches 7.
C3_OctaveCarry ==
    call = "addInterval" =>
        ret = Pitch(a.pitch + interval.interval, 1,
                    a.octave + interval.octave
                      + (IF LetterRank(a.pitch) + DiatonicSteps(interval.interval) >= 7
                         THEN 1 ELSE 0))

\* C4: getInterval returns the same value for (a, b) and (b, a): the interval
\* measured upward from the lower of the two pitches.
C4_ArgumentOrder ==
    call = "getInterval" =>
        /\ ~IsRaise(ret)
        /\ ret = getInterval(b, a)
        /\ ret # None =>
             ret.interval = IF SpellingLess(a, b) THEN b.pitch - a.pitch ELSE a.pitch - b.pitch

\* C5: the 8th pitch scale returns has the key-note's position and an octave
\* one greater than the key-note's (which is 0).
C5_ScaleClosure ==
    call = "scale" =>
        /\ ~IsRaise(ret)
        /\ Len(ret) >= 8
        /\ ret[8].pitch = KeyPosition(text)
        /\ ret[8].octave = 1

C7_Totality ==
    call \in {"lessThanPitch", "greaterThanPitch", "equatePitch"} =>
        /\ ~IsRaise(ret)
        /\ ~IsRaise(lessThanPitch(a, b))
        /\ ~IsRaise(greaterThanPitch(a, b))
        /\ ExactlyOne(lessThanPitch(a, b) = True,
                      greaterThanPitch(a, b) = True,
                      equatePitch(a, b) = True)

\* C8: two different spellings of one letter in one octave are ordered by
\* position: the flatter one is less, the sharper one greater.
C8_SameLetter ==
    (a.octave = b.octave /\ a.pitch % 7 = b.pitch % 7 /\ a.pitch # b.pitch) =>
        /\ call = "lessThanPitch" => ret = PyBool(a.pitch < b.pitch)
        /\ call = "greaterThanPitch" => ret = PyBool(a.pitch > b.pitch)

\* C9: lessThanPitch orders by octave first, whatever the positions, and in
\* one octave by natural letter C<D<E<F<G<A<B, whatever the accidentals.
C9_OctaveThenLetter ==
    call = "lessThanPitch" =>
        /\ a.octave # b.octave => ret = PyBool(a.octave < b.octave)
        /\ (a.octave = b.octave /\ LetterRank(a.pitch) # LetterRank(b.pitch))
             => ret = PyBool(LetterRank(a.pitch) < LetterRank(b.pitch))

\* B sharp has been found not less than C flat of the same octave
C9_Witness ==
    /\ call = "lessThanPitch"
    /\ a = Pitch(13, 1, 1)
    /\ b = Pitch(-6, 1, 1)
    /\ ret = False

\* C10: equatePitch is true iff octave and position are both equal, so two
\* different spellings of one sounding pitch are never equal;
\* approxEquatePitch is true iff the positions are equal.
C10_NotEnharmonic ==
    /\ call = "equatePitch" =>
         /\ ret = PyBool(a.octave = b.octave /\ a.pitch = b.pitch)
         /\ (a # b /\ Sounding(a) = Sounding(b)) => ret = False
    /\ call = "approxEquatePitch" => ret = PyBool(a.pitch = b.pitch)

\* C in octave 1 has been compared with the B sharp of octave 0
C10_Witness ==
    /\ call = "equatePitch"
    /\ a = Pitch(1, 1, 1)
    /\ b = Pitch(13, 1, 0)
    /\ Sounding(a) = Sounding(b)
    /\ ret = False

\* the length of a duration in divisions under a metre
MetricalLength(d, beats_, divisionsPerBeat_) ==
    (d.bar * beats_ + d.beat) * divisionsPerBeat_ + d.division

\* C11: addDuration conserves the metrical length: the length of the result
\* is the sum of the lengths of location and duration.
C11_Conservation ==
    call = "addDuration" =>
        /\ ~IsRaise(ret)
        /\ MetricalLength(ret, beats, divisionsPerBeat)
             = MetricalLength(a, beats, divisionsPerBeat)
               + MetricalLength(b, beats, divisionsPerBeat)

\* a backward offset has borrowed both a beat and a bar
C11_Witness ==
    /\ call = "addDuration"
    /\ a = Duration(1, 1, 0)
    /\ b = Duration(-1, -2, -1)
    /\ beats = 3
    /\ divisionsPerBeat = 2
    /\ ret = Duration(-1, 1, 1)

\* C12: addDuration returns 0 <= division < divisionsPerBeat and
\* 0 <= beat < beats, whatever the signs of the inputs.
C12_FloorBorrow ==
    call = "addDuration" =>
        /\ ~IsRaise(ret)
        /\ 0 <= ret.division /\ ret.division < divisionsPerBeat
        /\ 0 <= ret.beat /\ ret.beat < beats

\* half a beat before the first beat: the division is borrowed from the beat
\* and the beat from the bar
C12_Witness ==
    /\ call = "addDuration"
    /\ a = Duration(1, 0, 0)
    /\ b = Duration(0, 0, -1)
    /\ beats = 3
    /\ divisionsPerBeat = 2
    /\ ret = Duration(0, 2, 1)

\* the simple interval name a compound name of quality q and number n stands for
SimpleName(q, n) == q \o PyStr(((n - 1) % 7) + 1)

\* C13: a name of quality q and diatonic number n >= 8 denotes the simple
\* interval of number ((n-1) mod 7)+1 and the same quality plus (n-1) div 7
\* octaves, so it is of the same type as the simple interval (M10 ~= M3).
C13_Compound ==
    call = "text2interval" =>
        \A q \in Qualities \ {<<>>}, n \in 8..MaxNumber :
            text = q \o PyStr(n) =>
                /\ ~IsRaise(ret)
                /\ ret = Interval(text2interval(SimpleName(q, n)).interval, 1, (n - 1) \div 7)
                /\ equateIntervalType(ret, text2interval(SimpleName(q, n))) = True

\* the interval names of the module docstring, row by row (rows 0..6,
\* columns -14, -7, 0, +7, +14)
IntervalNameTable ==
    << << <<"d", "d", "1">>, <<"d", "1">>, <<"P", "1">>, <<"A", "1">>, <<"A", "A", "1">> >>,
       << <<"d", "d", "5">>, <<"d", "5">>, <<"P", "5">>, <<"A", "5">>, <<"A", "A", "5">> >>,
       << <<"d", "2">>, <<"m", "2">>, <<"M", "2">>, <<"A", "2">>, <<"A", "A", "2">> >>,
       << <<"d", "6">>, <<"m", "6">>, <<"M", "6">>, <<"A", "6">>, <<"A", "A", "6">> >>,
       << <<"d", "3">>, <<"m", "3">>, <<"M", "3">>, <<"A", "3">>, <<"A", "A", "3">> >>,
       << <<"d", "7">>, <<"m", "7">>, <<"M", "7">>, <<"A", "7">>, <<"A", "A", "7">> >>,
       << <<"d", "4">>, <<"P", "4">>, <<"a", "4">>, <<"A", "A", "4">>, <<"A", "A", "A", "4">> >> >>

\* C14: every name of the docstring table parses to its row's base value plus
\* its column's offset, with dps = 1 and octave = 0.
C14_NameTable ==
    call = "text2interval" =>
        \A row \in 0..6, column \in 1..5 :
            text = IntervalNameTable[row + 1][column] =>
                ret = Interval(row + 7 * (column - 3), 1, 0)

\* the triply augmented 4th of the last row has been parsed
C14_Witness ==
    /\ call = "text2interval"
    /\ text = <<"A", "A", "A", "4">>
    /\ ret = Interval(20, 1, 0)

\* C15: an interval with dps = 1 and octave >= 0, formatted by interval2text
\* and parsed back by text2interval, comes back with the same position, dps
\* and octave.
C15_IntervalRoundTrip ==
    (/\ call = "text2interval"
     /\ interval # None
     /\ interval.octave >= 0
     /\ text = interval2text(interval))
    => ret = interval

\* C16: text2interval fails when the quality is not valid for the class:
\* M or m with a unison, 4th or 5th, P with a 2nd, 3rd, 6th or 7th.
C16_InvalidQuality ==
    call = "text2interval" =>
        /\ \A q \in {<<"M">>, <<"m">>}, n \in {1, 4, 5} : text = q \o PyStr(n) => IsRaise(ret)
        /\ \A n \in {2, 3, 6, 7} : text = <<"P">> \o PyStr(n) => IsRaise(ret)

C18_AbsentPitch ==
    (/\ call \in {"lessThanPitch", "greaterThanPitch", "equatePitch",
                  "approxEquatePitch", "getInterval"}
     /\ (a = None \/ b = None))
    => ret = None

\* equatePitch has been asked about a pitch and an absent pitch
C18_Witness ==
    /\ call = "equatePitch"
    /\ a = Pitch(1, 1, 0)
    /\ b = None
    /\ ret = None

\* C19: each time comparison returns None when one or both operands are
\* absent, instead of raising.
C19_AbsentTime ==
    (/\ call \in {"lessThanTime", "lessThanOrEqualToTime", "greaterThanTime",
                  "greaterThanOrEqualToTime", "equateTime"}
     /\ (a = None \/ b = None))
    => ret = None

\* C20: for pitches in different octaves getInterval returns the position of
\* the pitch in the higher octave minus that of the pitch in the lower octave;
\* its octave is the octave difference when the octave-stripped lower-octave
\* pitch sorts below or equal to the octave-stripped other one, and one less
\* when it sorts above.
C20_AcrossOctaves ==
    (call = "getInterval" /\ a.octave # b.octave) =>
        LET low == IF a.octave < b.octave THEN a ELSE b
            high == IF a.octave < b.octave THEN b ELSE a
            below == \/ lessThanPitch(OctaveZero(low), OctaveZero(high)) = True
                     \/ equatePitch(OctaveZero(low), OctaveZero(high)) = True
            above == greaterThanPitch(OctaveZero(low), OctaveZero(high)) = True
        IN  /\ ~IsRaise(ret)
            /\ ret # None
            /\ ret.interval = high.pitch - low.pitch
            /\ below => ret.octave = high.octave - low.octave
            /\ above => ret.octave = high.octave - low.octave - 1


\* C21: for non-null pitches with dps = 1, getInterval returns null exactly
\* when, with both octaves set to 0, none of lessThanPitch, greaterThanPitch
\* and equatePitch holds between them; it returns the unison {0, 1, 0}
\* exactly when the two pitches have equal position and equal octave; and it
\* never raises the ValueError of the equal-octave case.
C21_Outcomes ==
    call = "getInterval" =>
        LET holds == \/ lessThanPitch(OctaveZero(a), OctaveZero(b)) = True
                     \/ greaterThanPitch(OctaveZero(a), OctaveZero(b)) = True
                     \/ equatePitch(OctaveZero(a), OctaveZero(b)) = True
        IN  /\ (ret = None) <=> ~holds
            /\ (ret = Interval(0, 1, 0)) <=> (a.pitch = b.pitch /\ a.octave = b.octave)
            /\ ret # Raise("ValueError")


\* how many times the character c stands in s
Count(s, c) == Cardinality({i \in 1..Len(s) : s[i] = c})

\* the octave digits that follow the letter and its accidentals
OctaveText(text_) == SelectSeq(Tail(text_), LAMBDA c : c \notin {"#", "b"})

\* C22: for every text made of a letter, a run of # and b in any order and
\* optional octave digits, text2pitch returns the position
\* base[letter] + 7 * (number of #) - 7 * (number of b), the octave written
\* by the digits (0 when there are none) and divisions_per_semitone 1.
C22_AccidentalArithmetic ==
    call = "text2pitch" =>
        ret = Pitch(naturals[Upper(text[1])]
                      + 7 * Count(Tail(text), "#") - 7 * Count(Tail(text), "b"),
                    1,
                    IF OctaveText(text) = <<>> THEN 0 ELSE PyInt(OctaveText(text)))


\* the qualities a 2nd, 3rd, 6th or 7th can carry
ImperfectQualities == Qualities \ {<<>>, <<"P">>, <<"p">>}

\* is the quality a run of the letters of set ?
IsRunOf(q, set) == \A i \in 1..Len(q) : q[i] \in set

\* the name of quality q and number n, with or without octave count and suffix
IsNameOf(text_, q, n) ==
    \E prefix \in {<<>>, <<"1", "+">>}, suffix \in {<<>>, <<"t", "h">>} :
        text_ = prefix \o q \o PyStr(n) \o suffix

\* C23 as stated: for the interval classes 2, 3, 6 and 7, a run of count
\* 'D'/'d' letters contributes -7 - 7 * (count - 1) to the class's value in
\* intervalList, M contributes 0, m contributes -7 and a run of count 'A'
\* contributes 7 * count.
C23_DiminishedAsStated ==
    call = "text2interval" =>
        \A q \in ImperfectQualities, n \in {2, 3, 6, 7} :
            IsNameOf(text, q, n) =>
                ret.interval = intervalList[n]
                    + (IF q = <<"M">> THEN 0
                       ELSE IF q = <<"m">> THEN -7
                       ELSE IF IsRunOf(q, {"A", "a"}) THEN 7 * Len(q)
                       ELSE -7 - 7 * (Len(q) - 1))

\* C23: for the diatonic numbers 2, 3, 6 and 7, a run of count 'D'/'d'
\* letters contributes -7 - 7 * count to the class's value in intervalList
\* (a diminished interval lies below the minor one), M contributes 0,
\* m contributes -7 and a run of count 'A'/'a' contributes 7 * count.
C23_DiminishedModifier ==
    call = "text2interval" =>
        \A q \in ImperfectQualities, n \in {2, 3, 6, 7} :
            IsNameOf(text, q, n) =>
                ret.interval = intervalList[n]
                    + (IF q = <<"M">> THEN 0
                       ELSE IF q = <<"m">> THEN -7
                       ELSE IF IsRunOf(q, {"A", "a"}) THEN 7 * Len(q)
                       ELSE -7 - 7 * Len(q))

\* a doubly diminished 3rd has been parsed, three rows below the major 3rd
C23_Witness ==
    /\ call = "text2interval"
    /\ text = <<"d", "d", "3">>
    /\ ret = Interval(-17, 1, 0)


\* C24: no call of addInterval, getInterval, lessThanPitch, greaterThanPitch,
\* scale or addDuration changes an object it was given or a table of the
\* module: after the call the pitch, interval and duration arguments have
\* the field values they had before it, the notes scale() has collected so
\* far are as they were, and naturals, pitch_order, intervalList,
\* intervalListP4, majorScale and minorScale are unchanged.
C24_Frame ==
    [][/\ tables' = tables
       /\ call' \in {"lessThanPitch", "greaterThanPitch", "getInterval", "addDuration"}
            => a' = a /\ b' = b
       /\ call' = "addInterval" => a' = a /\ interval' = interval
       /\ call = "scale.for"
            => text' = text /\ SubSeq(pitchArray', 1, Len(pitchArray)) = pitchArray]_vars

\* a B has been raised by a major 2nd past the next C, which addInterval
\* made as a changed copy of the B: the B, the interval and the tables are
\* as they were
C24_Witness ==
    /\ call = "addInterval"
    /\ a = Pitch(6, 1, 0)
    /\ interval = Interval(2, 1, 0)
    /\ ret = Pitch(8, 1, 1)
    /\ tables = ModuleTables
    /\ NotTypesetting


\* is the value an interval dict ?
IsInterval(value) == "interval" \in DOMAIN value

\* C25: every interval getInterval returns, for any two pitches in either
\* order, has octave >= 0; its interval2text form therefore begins with the
\* digits of that count and '+', and text2interval reads the count back.
C25_OctaveNotNegative ==
    (call = "getInterval" /\ IsInterval(ret)) =>
        /\ ret.octave >= 0
        /\ LET formatted == interval2text(ret)
               count == StrNat(ret.octave) \o <<"+">>
           IN  /\ SubSeq(formatted, 1, Len(count)) = count
               /\ text2interval(formatted).octave = ret.octave

\* from G in octave 0 up to F in octave 1 is less than an octave: the
\* difference of the octaves less one is 0
C25_Witness ==
    /\ call = "getInterval"
    /\ a = Pitch(2, 1, 0)
    /\ b = Pitch(0, 1, 1)
    /\ ret = Interval(-2, 1, 0)


\* the chord that is open after the characters of s from index i on, read
\* with depth chords open (0 or 1), or -1 when a '>' comes with no chord
\* open, a '<' with one open or a '}' with one open
RECURSIVE ChordDepth(_, _, _)
ChordDepth(s, i, depth) ==
    IF i > Len(s) THEN depth
    ELSE IF s[i] = "<" THEN (IF depth = 0 THEN ChordDepth(s, i + 1, 1) ELSE -1)
    ELSE IF s[i] = ">" THEN (IF depth = 1 THEN ChordDepth(s, i + 1, 0) ELSE -1)
    ELSE IF s[i] = "}" THEN (IF depth = 0 THEN ChordDepth(s, i + 1, 0) ELSE -1)
    ELSE ChordDepth(s, i + 1, depth)

\* C26: in what doc2lilypond writes for the voice blocks of any document,
\* empty part/voice passes included, every chord close ' >' follows a chord
\* open ' < ' that is not yet closed, no chord is opened inside another, and
\* no chord is open where a block ends, so none passes from one block into
\* the next.
C26_ChordBrackets ==
    /\ ChordDepth(Join(lilyList), 1, 0) # -1
    /\ call = "doc2lilypond" => ChordDepth(ret, 1, 0) = 0

====
